---- MODULE Spec2Model ----
(***************************************************************************)
(* dccautomation: a driver process launches a host application, learns its *)
(* service endpoint through a one-shot handshake, and runs test cases      *)
(* inside it.                                                              *)
(*                                                                         *)
(*   SpecRemote  one driver-side test invocation and the server-side run   *)
(*               it requests (testcase.py)                                 *)
(*   SpecLaunch  launches of a server process (bootstrap.py, common.py)    *)
(***************************************************************************)
EXTENDS Integers, Sequences, FiniteSets, TLC

\* ------------------------------------------------------------------ bounds
\* Most cleanups one server-side run registers through addCleanup.
MaxCleanups == 3
\* Most modules the test class lists in reload_modules.
MaxReload == 1
\* Callers that may be inside start_server_process at the same time.
NumLaunchers == 2
\* Most calls of start_server_process in one behaviour.
MaxLaunches == 3
\* Size of the pool the handshake socket's random address is drawn from.
NumAddresses == 3
\* Most test runs (calls of RemoteTestCase.run) in one behaviour.
MaxRuns == 2

\* --------------------------------------------------------------- common.py
SUCCESS == 200
INVALID_METHOD == 400
UNHANDLED_ERROR == 503
ENV_CONFIGNAME == "DCCAUTO_CONFIGNAME"
ENV_HANDSHAKE == "DCCAUTO_HANDSHAKE"
\* The names the module common defines: what common.<name> can resolve.
commonAttributes ==
    {"SUCCESS", "INVALID_METHOD", "UNHANDLED_ERROR",
     "ENV_CONFIGNAME", "ENV_HANDSHAKE"}

VARIABLES
    \* ---- the test classes' attributes (testcase.py, lines 27-33)
    config,             \* per class: its config's cfgname(), or "None"
    reload_test,
    reload_modules,     \* the number of modules in the list
    cache_client,
    start_proc,
    create_client_impl, \* "default", or "overridden" by the test classes
    cleanupsInTest,     \* most addCleanup calls the classes' tests make in a run
    _cached_client,     \* per class: the client set on that class, 0 if none
    \* ---- the driver: RemoteTestCase.run
    clients,      \* history: the clients created; client i is clients[i]
    runpc,        \* run: "idle", "launching", "testing"
    runCls,       \* type(self).__name__ of the test being run
    runMethod,    \* self._testMethodName
    runClient,    \* run's local variable client, 0 before there is one
    runCalls,     \* history: calls of create_client in this run
    runRequests,  \* history: exec requests issued in this run
    inst,         \* what self.setUp, self.tearDown and the test method are
    driverLog,    \* history: what the driver process executed in this run
    runs,         \* history: one record per run that has ended
    \* ---- driver side of one test invocation: wrapped_test
    dpc,          \* wrapped_test: "norun", "idle", "awaiting", "passed",
                  \* "failed"
    execOutcome,  \* how client.exec_ ended: "none", "return" or the exception
    savedName,    \* self.__testMethodName
    \* ---- the request/reply connection between client and server
    wire,         \* "none", "request", "running", "response", "done"
    status,       \* status code of the response, 0 before there is one
    request,      \* the statements of the exec request, in order
    \* ---- server side: RemoteTestCase._wrapped_test_remote
    tc,           \* the instance the request created: <<class, method>>
    rpc,          \* "idle", "reload", "setUp", "body", "tearDown", "cleanup",
                  \* "returned", "raised"
    reloadLeft,   \* modules of reload_modules not yet reloaded
    _cleanups,    \* TestCase._cleanups: registered and not yet popped
    excPending,   \* the try block raised; re-raised when finally completes
    nRegistered,  \* history: number of addCleanup calls so far
    regAtRaise,   \* history: nRegistered when setUp or the body raised
    log,          \* history: the functions entered, in order
    executed,     \* history: the cleanups called, in order
    raisedIn,     \* history: the steps that raised
    \* ---- bootstrap.py: the driver process and its launches
    environ,          \* os.environ of the driver process
    atexit_funcs,     \* functions registered with atexit, in order
    bound,            \* addresses a handshake socket is bound to and open on
    sockOps,          \* history: per address, the operations on its socket
    launchCount,      \* calls of start_server_process so far
    lpc,              \* per caller: "idle", "with", "spawn", "raised", "returned"
    lconfig,          \* per caller: the config argument's cfgname()
    lenv,             \* per caller: env, the copy of os.environ
    _handshake_info,  \* per caller: Handshaker._handshake_info (its endpoint)
    app_endpoint,     \* per caller: Handshaker.app_endpoint
    proc,             \* per caller: the Popen object, "None" before the spawn
    lexc              \* per caller: the exception the call ended with

classVars == <<config, reload_test, reload_modules, cache_client, start_proc,
               create_client_impl, cleanupsInTest>>
runVars == <<_cached_client, clients, runpc, runCls, runMethod, runClient,
             runCalls, runRequests, inst, driverLog, runs>>
driverVars == <<dpc, execOutcome, savedName>>
wireVars == <<wire, status, request>>
remoteVars == <<tc, rpc, reloadLeft, _cleanups, excPending, nRegistered,
                regAtRaise, log, executed, raisedIn>>
launchVars == <<environ, atexit_funcs, bound, sockOps, launchCount, lpc,
                lconfig, lenv, _handshake_info, app_endpoint, proc, lexc>>
testVars == <<classVars, runVars, driverVars, wireVars, remoteVars>>
vars == <<testVars, launchVars>>

\* ------------------------------------------------------------------ helpers
\* Count and Descending are used by the properties only.
Count(s, x) == Cardinality({i \in 1..Len(s) : s[i] = x})
\* <<n, n-1, ..., 1>>
Descending(n) == [i \in 1..n |-> n + 1 - i]
Finished == rpc \in {"returned", "raised"}

Launchers == 1..NumLaunchers
\* The identity strings (cfgname()) of the configs a caller may pass.
Configs == {"cfgA", "cfgB"}
Addresses == {"tcp://127.0.0.1:" \o ToString(i) : i \in 1..NumAddresses}
\* An environment maps each variable name to its value, or to Absent.
Absent == "<absent>"
EnvKeys == {"PYTHONPATH", ENV_CONFIGNAME, ENV_HANDSHAKE}
Terminated(l) == lpc[l] \in {"returned", "raised"}

\* The test classes: Base(RemoteTestCase) and Sub(Base), which overrides
\* config. Both live in the module TestModule and have the methods Methods.
Classes == {"Base", "Sub"}
Methods == {"test_a", "test_b"}
TestModule == <<"tests", "test_scene">>
\* The caller of start_server_process that is the test driver.
Driver == 1

\* cls._cached_client, read: the attribute set on the class itself, else the
\* one of its base class, else RemoteTestCase._cached_client, which is None.
Lookup(cls) ==
    IF _cached_client[cls] # 0 THEN _cached_client[cls]
    ELSE IF cls = "Sub" THEN _cached_client["Base"]
    ELSE 0

\* A _get_client that stores nothing.
CachedNowhere(cls, c) == _cached_client

\* cls._cached_client = c: the attribute is set on cls itself.
Cached(cls, c) == [_cached_client EXCEPT ![cls] = c]

\* sep.join(parts)
RECURSIVE Join(_, _)
Join(parts, sep) ==
    IF Len(parts) = 0 THEN ""
    ELSE IF Len(parts) = 1 THEN parts[1]
    ELSE parts[1] \o sep \o Join(Tail(parts), sep)

\* self.__module__ and self.__module__.replace('.', '_')
ModuleName == Join(TestModule, ".")
ModuleAlias == Join(TestModule, "_")

\* An exec string that reloads the test module whatever reload_test says.
ExecLinesAlwaysReloading(reload, cls, testfunc) ==
    << <<"import", ModuleName, ModuleAlias>>,
       <<"from-import", "dccautomation.compat", "reload">>,
       <<"reload", ModuleAlias>>,
       <<"instantiate", ModuleAlias, cls, testfunc>>,
       <<"call", "tc", "_wrapped_test_remote">> >>

\* _wrapped_test: the lines of the exec string after formatting, one tuple
\* per statement.
ExecLines(reload, cls, testfunc) ==
    << <<"import", ModuleName, ModuleAlias>>,
       <<"from-import", "dccautomation.compat", "reload">> >>
    \o (IF reload THEN << <<"reload", ModuleAlias>> >> ELSE << >>)
    \o << <<"instantiate", ModuleAlias, cls, testfunc>>,
          <<"call", "tc", "_wrapped_test_remote">> >>

\* What an instance's setUp, tearDown and test method are bound to: the test
\* class's own functions ("own") until run replaces them.
OwnFunctions == [setUp |-> "own", tearDown |-> "own", test |-> "own"]

\* A run that leaves the class's own setUp in place.
InstalledKeepingSetUp ==
    [setUp |-> "own", tearDown |-> "noop", test |-> "wrapped_test"]

\* run, lines 78-79: setUp and tearDown become no-ops, the test method becomes
\* wrapped_test.
Installed == [setUp |-> "noop", tearDown |-> "noop", test |-> "wrapped_test"]

\* ------------------------------------------------------------ testcase.py
\* The class attributes, as the test classes define them.
InitClass ==
    /\ reload_test \in BOOLEAN
    /\ reload_modules \in 0..MaxReload
    /\ cache_client \in BOOLEAN
    /\ \/ /\ create_client_impl = "overridden"
          /\ start_proc = TRUE
          /\ config = [c \in Classes |-> IF c = "Sub" THEN "cfgB" ELSE "cfgA"]
       \/ /\ create_client_impl = "default"
          /\ start_proc \in BOOLEAN
          /\ \E base \in {"None", "cfgA"} :
                config = [c \in Classes |-> IF c = "Sub" THEN "cfgB" ELSE base]
    /\ cleanupsInTest = 1
    /\ _cached_client = [c \in Classes |-> 0]

\* Before any test has been run.
InitRun ==
    /\ clients = << >>
    /\ runpc = "idle"
    /\ runCls = "None"
    /\ runMethod = "None"
    /\ runClient = 0
    /\ runCalls = 0
    /\ runRequests = 0
    /\ inst = OwnFunctions
    /\ driverLog = << >>
    /\ runs = << >>

\* Inside the run of Base.test_a, at the point where the test framework is
\* about to call the test method: the client was obtained from an overriding
\* create_client, and run has replaced setUp, tearDown and the method.
InitTesting ==
    /\ reload_test = TRUE
    /\ reload_modules \in 0..MaxReload
    /\ cache_client = TRUE
    /\ create_client_impl = "overridden"
    /\ start_proc = TRUE
    /\ config = [c \in Classes |-> IF c = "Sub" THEN "cfgB" ELSE "cfgA"]
    /\ cleanupsInTest = MaxCleanups
    /\ _cached_client = [c \in Classes |-> IF c = "Base" THEN 1 ELSE 0]
    /\ clients = << [cls |-> "Base", config |-> "cfgA"] >>
    /\ runpc = "testing"
    /\ runCls = "Base"
    /\ runMethod = "test_a"
    /\ runClient = 1
    /\ runCalls = 1
    /\ runRequests = 0
    /\ inst = Installed
    /\ driverLog = << <<"setUp", "noop">> >>
    /\ runs = << >>

InitRemoteAt(d) ==
    /\ dpc = d
    /\ execOutcome = "none"
    /\ savedName = "None"
    /\ wire = "none"
    /\ status = 0
    /\ request = << >>
    /\ tc = << >>
    /\ rpc = "idle"
    /\ reloadLeft = reload_modules
    /\ _cleanups = <<>>
    /\ excPending = FALSE
    /\ nRegistered = 0
    /\ regAtRaise = 0
    /\ log = <<>>
    /\ executed = <<>>
    /\ raisedIn = {}

InitRemote == InitTesting /\ InitRemoteAt("idle")

InitLaunch ==
    /\ environ \in {e \in [EnvKeys -> {Absent, "/usr/lib/python"}] :
                        /\ e[ENV_CONFIGNAME] = Absent
                        /\ e[ENV_HANDSHAKE] = Absent}
    /\ atexit_funcs = <<>>
    /\ bound = {}
    /\ sockOps = [a \in Addresses |-> <<>>]
    /\ launchCount = 0
    /\ lpc = [l \in Launchers |-> "idle"]
    /\ lconfig = [l \in Launchers |-> "None"]
    /\ lenv = [l \in Launchers |-> [k \in EnvKeys |-> Absent]]
    /\ _handshake_info = [l \in Launchers |-> "None"]
    /\ app_endpoint = [l \in Launchers |-> "None"]
    /\ proc = [l \in Launchers |-> "None"]
    /\ lexc = [l \in Launchers |-> "none"]

Init == InitRemote /\ InitLaunch

\* The test framework calls the test method, which is wrapped_test:
\* wrapped_test and _wrapped_test up to the point where client.exec_ blocks
\* for the reply. The connection carries one request at a time.
WrappedTestCall ==
    /\ runpc = "testing"
    /\ dpc = "idle"
    /\ wire \notin {"request", "running"}
    /\ dpc' = "awaiting"
    /\ savedName' = runMethod
    /\ request' = ExecLines(reload_test, runCls, savedName')
    /\ wire' = "request"
    /\ runRequests' = runRequests + 1
    /\ driverLog' = Append(driverLog, <<"test", inst.test>>)
    /\ UNCHANGED <<execOutcome, status, remoteVars>>
    /\ UNCHANGED <<_cached_client, clients, runpc, runCls, runMethod,
                   runClient, runCalls, inst, runs>>
    /\ UNCHANGED <<launchVars, classVars>>

\* The server executes the request: the test module is imported, a new
\* instance of the test case is created, tc._wrapped_test_remote() is entered.
RemoteStart ==
    /\ wire = "request"
    /\ rpc \in {"idle", "returned", "raised"}
    /\ wire' = "running"
    /\ tc' = <<request[Len(request) - 1][3], request[Len(request) - 1][4]>>
    /\ rpc' = "reload"
    /\ reloadLeft' = reload_modules
    /\ _cleanups' = << >>
    /\ excPending' = FALSE
    /\ nRegistered' = 0
    /\ regAtRaise' = 0
    /\ log' = << >>
    /\ executed' = << >>
    /\ raisedIn' = {}
    /\ UNCHANGED <<driverVars, status, request>>
    /\ UNCHANGED <<launchVars, classVars, runVars>>

\* for mod in self.reload_modules: reload(mod)   (outside the try block)
ReloadModule ==
    /\ rpc = "reload"
    /\ reloadLeft > 0
    /\ \E raises \in BOOLEAN :
        IF raises
        THEN /\ rpc' = "raised"
             /\ raisedIn' = raisedIn \cup {"reload"}
             /\ UNCHANGED reloadLeft
        ELSE /\ reloadLeft' = reloadLeft - 1
             /\ UNCHANGED <<rpc, raisedIn>>
    /\ UNCHANGED <<driverVars, wireVars, _cleanups, excPending, nRegistered,
                   regAtRaise, log, executed>>
    /\ UNCHANGED <<launchVars, classVars, runVars, tc>>

\* try: self.setUp()
CallSetUp ==
    /\ rpc = "reload"
    /\ reloadLeft = 0
    /\ rpc' = "setUp"
    /\ log' = Append(log, "setUp")
    /\ UNCHANGED <<driverVars, wireVars, reloadLeft, _cleanups, excPending,
                   nRegistered, regAtRaise, executed, raisedIn>>
    /\ UNCHANGED <<launchVars, classVars, runVars, tc>>

\* self.addCleanup(function), called by setUp, the body, tearDown or a cleanup.
\* The k-th registration is the entry k.
AddCleanup ==
    /\ rpc \in {"setUp", "body", "tearDown", "cleanup"}
    /\ nRegistered < cleanupsInTest
    /\ nRegistered' = nRegistered + 1
    /\ _cleanups' = Append(_cleanups, nRegistered + 1)
    /\ UNCHANGED <<driverVars, wireVars, rpc, reloadLeft, excPending,
                   regAtRaise, log, executed, raisedIn>>
    /\ UNCHANGED <<launchVars, classVars, runVars, tc>>

\* finally: self.tearDown()   entered with the try block's outcome
EnterFinally(raised, step) ==
    /\ rpc' = "tearDown"
    /\ log' = Append(log, "tearDown")
    /\ excPending' = raised
    /\ raisedIn' = IF raised THEN raisedIn \cup {step} ELSE raisedIn
    /\ regAtRaise' = IF raised THEN nRegistered ELSE regAtRaise
    /\ UNCHANGED <<reloadLeft, _cleanups, nRegistered, executed>>

\* self.setUp() returns or raises.
SetUpEndsSkippingTearDown ==
    /\ rpc = "setUp"
    /\ \E raises \in BOOLEAN :
        IF raises
        THEN /\ rpc' = "raised"
             /\ raisedIn' = raisedIn \cup {"setUp"}
             /\ regAtRaise' = nRegistered
             /\ UNCHANGED <<reloadLeft, _cleanups, excPending, nRegistered,
                            log, executed>>
        ELSE /\ rpc' = "body"
             /\ log' = Append(log, "body")
             /\ UNCHANGED <<reloadLeft, _cleanups, excPending, nRegistered,
                            regAtRaise, executed, raisedIn>>
    /\ UNCHANGED <<driverVars, wireVars>>
    /\ UNCHANGED <<launchVars, classVars, runVars, tc>>

SetUpEnds ==
    /\ rpc = "setUp"
    /\ \E raises \in BOOLEAN :
        IF raises
        THEN EnterFinally(TRUE, "setUp")
        ELSE /\ rpc' = "body"
             /\ log' = Append(log, "body")
             /\ UNCHANGED <<reloadLeft, _cleanups, excPending, nRegistered,
                            regAtRaise, executed, raisedIn>>
    /\ UNCHANGED <<driverVars, wireVars>>
    /\ UNCHANGED <<launchVars, classVars, runVars, tc>>

\* getattr(self, self._testMethodName)() returns or raises.
BodyEnds ==
    /\ rpc = "body"
    /\ \E raises \in BOOLEAN : EnterFinally(raises, "body")
    /\ UNCHANGED <<driverVars, wireVars>>
    /\ UNCHANGED <<launchVars, classVars, runVars, tc>>

\* How the try statement ends once its finally block has completed: the
\* exception of the try block, if any, is raised again.
OutcomeSwallowed(pending) == "returned"

Outcome(pending) == IF pending THEN "raised" ELSE "returned"

\* self._cleanups.pop(-1)
PopFirst(s) == 1

PopIndex(s) == Len(s)

Remove(s, i) == SubSeq(s, 1, i - 1) \o SubSeq(s, i + 1, Len(s))

\* while self._cleanups: function, args, kwargs = self._cleanups.pop(-1);
\*                       function(*args, **kwargs)
\* The head of the loop: either the loop ends and with it the try statement,
\* or the next cleanup is popped and called.
DoCleanups ==
    IF _cleanups = <<>>
    THEN /\ rpc' = Outcome(excPending)
         /\ UNCHANGED <<_cleanups, log, executed>>
    ELSE /\ rpc' = "cleanup"
         /\ executed' = Append(executed, _cleanups[PopIndex(_cleanups)])
         /\ _cleanups' = Remove(_cleanups, PopIndex(_cleanups))
         /\ log' = Append(log, "cleanup")

\* self.tearDown() returns or raises (inside the finally block).
TearDownEnds ==
    /\ rpc = "tearDown"
    /\ \E raises \in BOOLEAN :
        IF raises
        THEN /\ rpc' = "raised"
             /\ raisedIn' = raisedIn \cup {"tearDown"}
             /\ UNCHANGED <<_cleanups, log, executed>>
        ELSE /\ DoCleanups
             /\ UNCHANGED raisedIn
    /\ UNCHANGED <<driverVars, wireVars, reloadLeft, excPending, nRegistered,
                   regAtRaise>>
    /\ UNCHANGED <<launchVars, classVars, runVars, tc>>

\* function(*args, **kwargs) returns or raises (inside the while loop).
CleanupEnds ==
    /\ rpc = "cleanup"
    /\ \E raises \in BOOLEAN :
        IF raises
        THEN /\ rpc' = "raised"
             /\ raisedIn' = raisedIn \cup {"cleanup"}
             /\ UNCHANGED <<_cleanups, log, executed>>
        ELSE /\ DoCleanups
             /\ UNCHANGED raisedIn
    /\ UNCHANGED <<driverVars, wireVars, reloadLeft, excPending, nRegistered,
                   regAtRaise>>
    /\ UNCHANGED <<launchVars, classVars, runVars, tc>>

\* RPCServer: the handler's outcome becomes the response's status code.
ServerReply ==
    /\ Finished
    /\ wire = "running"
    /\ wire' = "response"
    /\ status' = IF rpc = "raised" THEN UNHANDLED_ERROR ELSE SUCCESS
    /\ UNCHANGED <<driverVars, request, remoteVars>>
    /\ UNCHANGED <<launchVars, classVars, runVars>>

\* RPCClient: how exec_ ends. A response is decoded by its status; while
\* there is none, the call can only end by its timeout.
exec_Outcomes ==
    IF wire = "response"
    THEN {CASE status = SUCCESS -> "return"
            [] status = INVALID_METHOD -> "InvalidMethod"
            [] status = UNHANDLED_ERROR -> "UnhandledError"
            [] OTHER -> "UnhandledResponse"}
    ELSE {"Timeout"}

\* client.exec_ ends; _wrapped_test and wrapped_test (try/finally) end as it
\* did.
WrappedTestEnds ==
    /\ dpc = "awaiting"
    /\ \E outcome \in exec_Outcomes :
        /\ execOutcome' = outcome
        /\ dpc' = IF outcome = "return" THEN "passed" ELSE "failed"
    /\ wire' = IF wire = "response" THEN "done" ELSE wire
    /\ UNCHANGED <<savedName, status, request, remoteVars>>
    /\ UNCHANGED <<launchVars, classVars, runVars>>

NextRemote ==
    \/ WrappedTestCall
    \/ RemoteStart
    \/ ReloadModule
    \/ CallSetUp
    \/ AddCleanup
    \/ SetUpEnds
    \/ BodyEnds
    \/ TearDownEnds
    \/ CleanupEnds
    \/ ServerReply
    \/ WrappedTestEnds

SpecRemote == Init /\ [][NextRemote]_vars

\* ------------------------------------------------------------ bootstrap.py

\* A variant of the call that puts the config's name into os.environ itself
\* instead of leaving the process environment alone.
StartServerProcessIntoEnviron(l, cfg) ==
    /\ lpc[l] \in {"idle", "raised", "returned"}
    /\ launchCount < MaxLaunches
    /\ launchCount' = launchCount + 1
    /\ lpc' = [lpc EXCEPT ![l] = "with"]
    /\ lconfig' = [lconfig EXCEPT ![l] = cfg]
    /\ environ' = [environ EXCEPT ![ENV_CONFIGNAME] = cfg]
    /\ lenv' = [lenv EXCEPT ![l] = environ']
    /\ _handshake_info' = [_handshake_info EXCEPT ![l] = "None"]
    /\ app_endpoint' = [app_endpoint EXCEPT ![l] = "None"]
    /\ proc' = [proc EXCEPT ![l] = "None"]
    /\ lexc' = [lexc EXCEPT ![l] = "none"]
    /\ UNCHANGED <<atexit_funcs, bound, sockOps>>

\* start_server_process(config), line 42, and Handshaker.__init__, called by
\* the caller l with a config whose cfgname() is cfg:
\*   env = dict(os.environ); Handshaker(config, env)
StartServerProcessBy(l, cfg) ==
    /\ lpc[l] \in {"idle", "raised", "returned"}
    /\ launchCount < MaxLaunches
    /\ launchCount' = launchCount + 1
    /\ lpc' = [lpc EXCEPT ![l] = "with"]
    /\ lconfig' = [lconfig EXCEPT ![l] = cfg]
    /\ lenv' = [lenv EXCEPT ![l] = environ]
    /\ _handshake_info' = [_handshake_info EXCEPT ![l] = "None"]
    /\ app_endpoint' = [app_endpoint EXCEPT ![l] = "None"]
    /\ proc' = [proc EXCEPT ![l] = "None"]
    /\ lexc' = [lexc EXCEPT ![l] = "none"]
    /\ UNCHANGED <<environ, atexit_funcs, bound, sockOps>>

\* A call of start_server_process by any caller with any config.
StartServerProcess ==
    /\ \E l \in Launchers, cfg \in Configs : StartServerProcessBy(l, cfg)
    /\ UNCHANGED testVars

\* utils.create_rep_socket_bound_to_random(): the addresses a new socket can
\* be bound to are those no open socket is bound to.
FreeAddresses == Addresses \ bound

\* "with Handshaker(config, env) as handshake": Handshaker.__enter__.
\* The socket is created and bound; then the target of the first assignment,
\* self._environ[common.ENV_HANDSHAKE_ENDPOINT], is evaluated, and the
\* attribute lookup on the module common raises AttributeError when common
\* defines no such name. An exception of __enter__ leaves the with statement
\* without calling __exit__ and ends start_server_process.
HandshakerEnter ==
    \E l \in Launchers, a \in FreeAddresses :
        /\ lpc[l] = "with"
        /\ bound' = bound \cup {a}
        /\ sockOps' = [sockOps EXCEPT ![a] = <<"bind">>]
        /\ _handshake_info' = [_handshake_info EXCEPT ![l] = a]
        /\ IF "ENV_HANDSHAKE_ENDPOINT" \in commonAttributes
           THEN /\ lenv' = [lenv EXCEPT ![l] =
                                [lenv[l] EXCEPT ![ENV_HANDSHAKE] = a,
                                                ![ENV_CONFIGNAME] = lconfig[l]]]
                /\ lpc' = [lpc EXCEPT ![l] = "spawn"]
                /\ UNCHANGED lexc
           ELSE /\ lpc' = [lpc EXCEPT ![l] = "raised"]
                /\ lexc' = [lexc EXCEPT ![l] = "AttributeError"]
                /\ UNCHANGED lenv
        /\ UNCHANGED <<environ, atexit_funcs, launchCount, lconfig,
                       app_endpoint, proc, testVars>>

NextLaunch ==
    \/ StartServerProcess
    \/ HandshakerEnter

SpecLaunch ==
    Init /\ [][NextLaunch]_vars

\* ------------------------------------------------- claims: the server-side run

\* C1 (as the specification states it): when cleanups A, B, C (the entries 1,
\* 2, 3) were registered in that order and tearDown raised, the finished run
\* has executed all three, in the order C, B, A.
C1_CleanupsRunAfterTearDownRaises ==
    (Finished /\ "tearDown" \in raisedIn /\ nRegistered = 3)
        => executed = Descending(3)

\* C2: whatever setUp and the body do (the body does not run when setUp
\* raises), tearDown is entered exactly once, only after setUp and the body
\* have ended, and before any cleanup is called.
C2_TearDownOnceAfterBodyBeforeCleanups ==
    /\ Count(log, "tearDown") <= 1
    /\ (Finished /\ Count(log, "setUp") = 1) => Count(log, "tearDown") = 1
    /\ rpc \in {"setUp", "body"} => Count(log, "tearDown") = 0
    /\ "setUp" \in raisedIn => Count(log, "body") = 0
    /\ \A i \in 1..Len(log) :
        /\ log[i] \in {"setUp", "body"}
              => \A j \in 1..(i - 1) : log[j] # "tearDown"
        /\ log[i] = "cleanup"
              => \E j \in 1..(i - 1) : log[j] = "tearDown"

C2_Witness ==
    /\ Finished
    /\ "setUp" \in raisedIn
    /\ Count(log, "tearDown") = 1
    /\ Len(executed) >= 2

\* C3: when setUp or the body raised and neither tearDown nor a cleanup did,
\* the finished run has called every registered cleanup exactly once, those
\* registered before the failure most recent first, and _cleanups is empty.
C3_CleanupsReversedAfterFailure ==
    (/\ Finished
     /\ raisedIn \cap {"setUp", "body"} # {}
     /\ raisedIn \cap {"tearDown", "cleanup"} = {})
        => LET Early(k) == k <= regAtRaise
           IN  /\ SelectSeq(executed, Early) = Descending(regAtRaise)
               /\ Len(executed) = nRegistered
               /\ {executed[i] : i \in 1..Len(executed)} = 1..nRegistered
               /\ _cleanups = <<>>

C3_Witness ==
    /\ Finished
    /\ "body" \in raisedIn
    /\ raisedIn \cap {"tearDown", "cleanup"} = {}
    /\ regAtRaise >= 2
    /\ nRegistered > regAtRaise

\* C4: no failure is swallowed. A run in which the reload, setUp, the body,
\* tearDown or a cleanup raised never returns normally, and when the client's
\* exec request raised, the wrapped test method raised too.
C4_FailureNeverSwallowed ==
    /\ (Finished /\ raisedIn # {}) => rpc = "raised"
    /\ (dpc \in {"passed", "failed"} /\ execOutcome # "return")
          => dpc = "failed"

C4_Witness ==
    /\ rpc = "raised"
    /\ raisedIn = {"setUp"}
    /\ _cleanups = <<>>
    /\ Len(executed) >= 1
    /\ dpc = "failed"
    /\ execOutcome = "UnhandledError"

\* ------------------------------------------------- testcase.py: the driver

\* The record the history keeps of a run that has ended.
RunRecord(cls, m, c, calls, requests, raised) ==
    [cls |-> cls, client |-> c, calls |-> calls,
     requests |-> requests, raised |-> raised, cached |-> Lookup(cls)]

\* Between two runs: once the request of the previous run has been answered,
\* the instance the server created for it is gone and the connection is idle
\* again; the histories of that exchange are cleared with it.
ForgetExchange ==
    IF Finished /\ wire \in {"response", "done"}
    THEN /\ wire' = "none"
         /\ status' = 0
         /\ request' = << >>
         /\ tc' = << >>
         /\ rpc' = "idle"
         /\ reloadLeft' = reload_modules
         /\ _cleanups' = << >>
         /\ excPending' = FALSE
         /\ nRegistered' = 0
         /\ regAtRaise' = 0
         /\ log' = << >>
         /\ executed' = << >>
         /\ raisedIn' = {}
    ELSE UNCHANGED <<wireVars, remoteVars>>

\* run, lines 66-80, once the client c is there: setUp, tearDown and the test
\* method of the instance are replaced, and unittest.TestCase.run starts the
\* test: it calls self.setUp() and is about to call the test method.
BeginTest(cls, m, c, calls) ==
    /\ runpc' = "testing"
    /\ runCls' = cls
    /\ runMethod' = m
    /\ runClient' = c
    /\ runCalls' = calls
    /\ runRequests' = 0
    /\ inst' = Installed
    /\ driverLog' = << <<"setUp", inst'.setUp>> >>
    /\ dpc' = "idle"
    /\ execOutcome' = "none"
    /\ savedName' = "None"
    /\ ForgetExchange
    /\ UNCHANGED runs

\* An except clause without the final raise.
ClientErrorSwallowed == FALSE

\* run, lines 59-64: an exception of _get_client is reported and raised again.
ClientErrorPropagates == TRUE

\* run, lines 57-64, when _get_client raised: run ends by raising.
ClientFailed(cls, m, calls) ==
    IF ClientErrorPropagates
    THEN /\ runs' = Append(runs, RunRecord(cls, m, 0, calls, 0, TRUE))
         /\ runpc' = "idle"
         /\ runCls' = cls
         /\ runMethod' = m
         /\ runClient' = 0
         /\ runCalls' = calls
         /\ runRequests' = 0
         /\ inst' = OwnFunctions
         /\ driverLog' = << >>
         /\ ForgetExchange
         /\ UNCHANGED driverVars
    ELSE BeginTest(cls, m, 0, calls)

\* create_client returned a client: _get_client stores it on the class when
\* cache_client is set (line 53), and run goes on with it.
ClientCreated(cls, m) ==
    LET c == Len(clients) + 1
    IN  /\ clients' = Append(clients, [cls |-> cls, config |-> config[cls]])
        /\ _cached_client' = IF cache_client THEN Cached(cls, c)
                             ELSE _cached_client
        /\ BeginTest(cls, m, c, 1)

\* cls.create_client(), lines 35-46. The default raises RuntimeError without a
\* config and AssertionError without start_proc, and otherwise calls
\* bootstrap.start_server_process. A create_client the test classes override
\* returns a client for cls.config or raises.
CreateClient(cls, m) ==
    IF create_client_impl = "overridden"
    THEN \E ok \in BOOLEAN :
            IF ok
            THEN ClientCreated(cls, m) /\ UNCHANGED launchVars
            ELSE /\ ClientFailed(cls, m, 1)
                 /\ UNCHANGED <<_cached_client, clients, launchVars>>
    ELSE IF config[cls] = "None" \/ ~start_proc
    THEN /\ ClientFailed(cls, m, 1)
         /\ UNCHANGED <<_cached_client, clients, launchVars>>
    ELSE /\ StartServerProcessBy(Driver, config[cls])
         /\ runpc' = "launching"
         /\ runCls' = cls
         /\ runMethod' = m
         /\ runClient' = 0
         /\ runCalls' = 1
         /\ runRequests' = 0
         /\ inst' = OwnFunctions
         /\ driverLog' = << >>
         /\ ForgetExchange
         /\ UNCHANGED <<_cached_client, clients, runs, driverVars>>

\* run(self, result), lines 56-80, with _get_client, lines 48-54: a test of
\* the class cls is run, up to the call of start_server_process or of the test
\* method, or to the end of run when the client could not be created.
RunGetClient ==
    /\ runpc = "idle"
    /\ Len(runs) < MaxRuns
    /\ \E cls \in Classes, m \in Methods :
        IF cache_client /\ Lookup(cls) # 0
        THEN /\ BeginTest(cls, m, Lookup(cls), 0)
             /\ UNCHANGED <<_cached_client, clients, launchVars>>
        ELSE CreateClient(cls, m)
    /\ UNCHANGED classVars

\* start_server_process has ended: create_client returns Client(proc), or
\* the exception goes on through create_client and _get_client to run.
CreateClientEnds ==
    /\ runpc = "launching"
    /\ Terminated(Driver)
    /\ IF lpc[Driver] = "returned"
       THEN ClientCreated(runCls, runMethod)
       ELSE /\ ClientFailed(runCls, runMethod, runCalls)
            /\ UNCHANGED <<_cached_client, clients>>
    /\ UNCHANGED <<launchVars, classVars>>

\* The test method has ended: unittest.TestCase.run calls self.tearDown() and
\* returns, having recorded the outcome in the result.
RunEnds ==
    /\ runpc = "testing"
    /\ dpc \in {"passed", "failed"}
    /\ driverLog' = Append(driverLog, <<"tearDown", inst.tearDown>>)
    /\ runs' = Append(runs, RunRecord(runCls, runMethod, runClient, runCalls,
                                      runRequests, FALSE))
    /\ runpc' = "idle"
    /\ dpc' = "norun"
    /\ UNCHANGED <<_cached_client, clients, runCls, runMethod, runClient,
                   runCalls, runRequests, inst>>
    /\ UNCHANGED <<execOutcome, savedName, wireVars, remoteVars, launchVars,
                   classVars>>

\* No test has been run yet.
InitDriver ==
    /\ InitClass
    /\ InitRun
    /\ InitRemoteAt("norun")
    /\ InitLaunch
    /\ environ["PYTHONPATH"] = Absent

Next ==
    \/ RunGetClient
    \/ HandshakerEnter
    \/ CreateClientEnds
    \/ RunEnds
    \/ WrappedTestCall
    \/ RemoteStart
    \/ ReloadModule
    \/ CallSetUp
    \/ AddCleanup
    \/ SetUpEnds
    \/ BodyEnds
    \/ TearDownEnds
    \/ CleanupEnds
    \/ ServerReply
    \/ WrappedTestEnds

Spec == InitDriver /\ [][Next]_vars

\* --------------------------------------------------------- claims: launching

\* C5 (as the specification states it): every launch reaches the spawn step,
\* and the environment handed to the child then holds the handshake address
\* under common.ENV_HANDSHAKE and the config's name under
\* common.ENV_CONFIGNAME.
C5_SpawnedWithHandshakeEnvironment ==
    \A l \in Launchers :
        Terminated(l) =>
            /\ proc[l] # "None"
            /\ lenv[l][ENV_HANDSHAKE] = _handshake_info[l]
            /\ lenv[l][ENV_CONFIGNAME] = lconfig[l]

C7_HandshakeSocketConsumedOnce ==
    \A l \in Launchers :
        Terminated(l) =>
            /\ sockOps[_handshake_info[l]] = <<"bind", "recv", "send", "close">>
            /\ _handshake_info[l] \notin bound

C10_LaunchEndsOnlyAfterMessage ==
    \A l \in Launchers :
        Terminated(l) =>
            \E i \in 1..Len(sockOps[_handshake_info[l]]) :
                sockOps[_handshake_info[l]][i] = "recv"

\* C13: start_server_process never changes os.environ, and the env a launch
\* starts from is the process environment, without a handshake address or a
\* config name of an earlier launch.
C13_EnvironUnchangedByLaunch ==
    [][/\ environ' = environ
       /\ \A l \in Launchers :
            (lpc[l] # "with" /\ lpc'[l] = "with")
                => /\ lenv'[l] = environ
                   /\ lenv'[l][ENV_HANDSHAKE] = Absent
                   /\ lenv'[l][ENV_CONFIGNAME] = Absent]_vars

C13_Witness ==
    \E l \in Launchers :
        /\ lpc[l] = "with"
        /\ launchCount >= 2
        /\ bound # {}
        /\ lenv[l] = environ
        /\ environ[ENV_HANDSHAKE] = Absent

\* C14 (as the claim states it): when a cleanup raised, the finished run has
\* nevertheless called every registered cleanup, and none is left in
\* _cleanups.
C14_PendingCleanupsRunAfterCleanupRaises ==
    (Finished /\ "cleanup" \in raisedIn)
        => /\ _cleanups = <<>>
           /\ Len(executed) = nRegistered

C11_ClientCaching ==
    /\ cache_client =>
        \A cls \in Classes :
            /\ Cardinality({i \in 1..Len(clients) : clients[i].cls = cls}) <= 1
            /\ \A i, j \in 1..Len(runs) :
                (/\ runs[i].cls = cls /\ runs[j].cls = cls
                 /\ runs[i].client # 0 /\ runs[j].client # 0)
                    => runs[i].client = runs[j].client
            /\ \A i \in 1..Len(runs) :
                (/\ runs[i].cls = cls /\ runs[i].client # 0
                 /\ runpc = "testing" /\ runCls = cls)
                    => runClient = runs[i].client
    /\ ~cache_client =>
        /\ \A cls \in Classes : _cached_client[cls] = 0
        /\ \A i \in 1..Len(runs) : runs[i].calls = 1
        /\ runpc # "idle" => runCalls = 1

C11_Witness ==
    /\ cache_client
    /\ Len(runs) = 2
    /\ runs[1].cls = runs[2].cls
    /\ runs[1].client # 0
    /\ runs[2].client = runs[1].client
    /\ runs[1].calls = 1
    /\ runs[2].calls = 0

\* C12: a run that obtained its client issues exactly one exec request, and
\* what the request does is, in this order: import the test module, reload it
\* if and only if reload_test is set, create the test case for the method
\* being run, call its _wrapped_test_remote. (The request also imports the
\* name reload, whether or not it reloads.)
C12_OneRequestWithOrderedSteps ==
    LET Step(line) == line[1] # "from-import"
        Expected ==
            << <<"import", ModuleName, ModuleAlias>> >>
            \o (IF reload_test THEN << <<"reload", ModuleAlias>> >> ELSE << >>)
            \o << <<"instantiate", ModuleAlias, runCls, runMethod>>,
                  <<"call", "tc", "_wrapped_test_remote">> >>
    IN  /\ \A i \in 1..Len(runs) :
            runs[i].client # 0 => runs[i].requests = 1
        /\ (runpc = "testing" /\ dpc \in {"awaiting", "passed", "failed"})
            => /\ runRequests = 1
               /\ SelectSeq(request, Step) = Expected
        /\ (runpc = "testing" /\ dpc = "awaiting"
                /\ wire \in {"running", "response"})
            => tc = <<runCls, runMethod>>

C12_Witness ==
    /\ Len(runs) = 1
    /\ runs[1].requests = 1
    /\ runpc = "testing"
    /\ dpc = "passed"
    /\ ~reload_test
    /\ runCls = "Sub"
    /\ runMethod = "test_b"
    /\ tc = <<"Sub", "test_b">>
    /\ Len(request) = 4

\* C16: a run whose client could not be obtained ends by raising, having
\* issued no request and run nothing of the test, and leaves no cached
\* client for its class; the next run of the class calls create_client again.
C16_ClientFailureEndsRun ==
    \A i \in 1..Len(runs) :
        runs[i].client = 0 =>
            /\ runs[i].raised
            /\ runs[i].calls = 1
            /\ runs[i].requests = 0
            /\ runs[i].cached = 0
            /\ (i < Len(runs) /\ runs[i + 1].cls = runs[i].cls)
                  => runs[i + 1].calls = 1
            /\ (i = Len(runs) /\ runpc # "idle" /\ runCls = runs[i].cls)
                  => runCalls = 1
            /\ (i = Len(runs) /\ runpc = "idle")
                  => /\ driverLog = << >>
                     /\ dpc = "norun"

C16_Witness ==
    /\ Len(runs) = 2
    /\ create_client_impl = "default"
    /\ config["Base"] = "None"
    /\ runs[1].cls = "Base"
    /\ runs[1].client = 0
    /\ runs[1].raised
    /\ runs[2].cls = "Base"
    /\ runs[2].calls = 1

\* C17: the driver process never executes the test class's own setUp,
\* tearDown or test method: what it calls during a run are the no-ops and
\* wrapped_test, and the class's own functions are entered only by the
\* instance the server created for the request.
C17_OwnFunctionsOnlyOnServer ==
    /\ \A i \in 1..Len(driverLog) : driverLog[i][2] # "own"
    /\ runpc = "testing" =>
        (inst.setUp = "noop" /\ inst.tearDown = "noop"
            /\ inst.test = "wrapped_test")
    /\ log # << >> => tc # << >>

C17_Witness ==
    /\ runpc = "idle"
    /\ Len(runs) = 1
    /\ driverLog = << <<"setUp", "noop">>, <<"test", "wrapped_test">>,
                      <<"tearDown", "noop">> >>
    /\ rpc = "returned"
    /\ tc = <<runCls, runMethod>>
    /\ log = <<"setUp", "body", "tearDown", "cleanup">>

\* C18 (as the claim states it): with cache_client set, every run uses a
\* client that was created from the config of the run's own class.
C18_ClientOfOwnConfig ==
    cache_client =>
        /\ \A i \in 1..Len(runs) :
            runs[i].client # 0
                => clients[runs[i].client].config = config[runs[i].cls]
        /\ (runpc = "testing" /\ runClient # 0)
                => clients[runClient].config = config[runCls]

====
